---- MODULE Spec2Model ----
(***************************************************************************)
(* start.py: the frame pump of run_xorg_app_in_xephyr (the loop that reads *)
(* raw RGB24 frames from ffmpeg's stdout, converts every pixel with        *)
(* get_ascii_char_and_color and refreshes the caca display) and the pixel  *)
(* classifier get_ascii_char_and_color itself.                             *)
(***************************************************************************)
EXTENDS Integers, Sequences, FiniteSets, TLC

VARIABLES
    canvas_width,   \* width // (8 * scale_factor)
    canvas_height,  \* height // (16 * scale_factor)
    written,        \* every byte ffmpeg has written to its stdout pipe so far
    rpos,           \* how many of those bytes ffmpeg.stdout.read has consumed
    src,            \* the pipe: "open", "eof" (closed), "error" (read raises)
    pc,             \* where run_xorg_app_in_xephyr (or the classifier) stands
    state,          \* the pump's state: Idle, Running, Drained, Failed, Cancelled
    error,          \* the error that ended the run, "none" if none
    raw_frame,      \* the bytes the last read returned
    frame,          \* raw_frame reshaped to canvas_height x canvas_width x 3
    x, y,           \* the indices of the pixel loops
    pixel,          \* the pixel handed to get_ascii_char_and_color
    char, color,    \* what get_ascii_char_and_color returned
    canvas,         \* the cells of the caca canvas
    delivered,      \* the canvas contents the display showed at each refresh
    reads,          \* how many non-empty chunks read has returned
    terminated,     \* the subprocesses terminate() was called on
    raised,         \* whether the function ends by raising
    started,        \* the subprocesses whose Popen has returned
    exc             \* the exception in flight or raised, "none" if none

vars == <<canvas_width, canvas_height, written, rpos, src, pc, state, error,
          raw_frame, frame, x, y, pixel, char, color, canvas, delivered,
          reads, terminated, raised, started, exc>>


(***************************************************************************)
(* Bounds of the model.                                                    *)
(***************************************************************************)
MaxStreamLen == 13  \* ffmpeg writes at most this many bytes
MaxCols      == 2   \* width is 8 * n + 4 for n in 0..MaxCols
MaxRows      == 2   \* height is 16 * n + 8 for n in 0..MaxRows
MaxScale     == 2   \* scale_factor is in 1..MaxScale
GridPoints   == 7   \* channel values sampled evenly over 0..255, besides the edges

Widths  == {8 * n + 4 : n \in 0..MaxCols}
Heights == {16 * n + 8 : n \in 0..MaxRows}
Scales  == 1..MaxScale
\* The rgb24 pixels ffmpeg writes in the pump model.
PixelVals == {<<200, 40, 40>>, <<40, 200, 129>>}
\* The channel values the classifier is applied to.
ChannelSamples ==
    {0, 1, 10, 85, 127, 128, 129, 254, 255}
        \cup {(255 * n) \div GridPoints : n \in 0..GridPoints}
\* Further pixels at which (L / 255) * 9 is a whole number.
EdgePixels == {<<85, 85, 85>>, <<170, 170, 170>>, <<23, 214, 167>>, <<71, 72, 255>>}
PixelSamples ==
    (ChannelSamples \X ChannelSamples \X ChannelSamples) \cup EdgePixels
\* The pixels every classified pixel is compared with.
CompareChannels == {0, 64, 128, 192, 255}
CompareSamples ==
    (CompareChannels \X CompareChannels \X CompareChannels)
        \cup {<<10, 10, 10>>, <<85, 85, 85>>, <<3, 112, 59>>, <<84, 85, 85>>,
              <<170, 170, 170>>, <<252, 143, 196>>, <<254, 255, 255>>}

(***************************************************************************)
(* Python float arithmetic (IEEE-754 binary64, round-to-nearest-even), as  *)
(* used by get_ascii_char_and_color.  A non-negative float f is held as    *)
(* the exact integer f * 2^FracBits, written as a little-endian sequence   *)
(* of limbs in base LimbBase, because the 53-bit significands do not fit   *)
(* the model checker's machine integers.                                   *)
(***************************************************************************)
LimbBits == 12
LimbBase == 2^LimbBits
FracBits == 72
MantBits == 53

RECURSIVE BigMulSmall(_, _, _)
BigMulSmall(a, n, carry) ==
    IF a = <<>>
    THEN IF carry = 0 THEN <<>>
         ELSE <<carry % LimbBase>> \o BigMulSmall(<<>>, n, carry \div LimbBase)
    ELSE LET t == Head(a) * n + carry
         IN  <<t % LimbBase>> \o BigMulSmall(Tail(a), n, t \div LimbBase)

RECURSIVE BigAdd(_, _, _)
BigAdd(a, b, carry) ==
    IF a = <<>> /\ b = <<>>
    THEN IF carry = 0 THEN <<>> ELSE <<carry>>
    ELSE LET la == IF a = <<>> THEN 0 ELSE Head(a)
             lb == IF b = <<>> THEN 0 ELSE Head(b)
             t  == la + lb + carry
         IN  <<t % LimbBase>> \o BigAdd(IF a = <<>> THEN a ELSE Tail(a),
                                        IF b = <<>> THEN b ELSE Tail(b),
                                        t \div LimbBase)

\* Quotient and remainder of a by the small integer n.
RECURSIVE BigDivSmall(_, _)
BigDivSmall(a, n) ==
    IF a = <<>> THEN [q |-> <<>>, r |-> 0]
    ELSE LET hi == BigDivSmall(Tail(a), n)
             t  == hi.r * LimbBase + Head(a)
         IN  [q |-> <<t \div n>> \o hi.q, r |-> t % n]

RECURSIVE BitLenSmall(_)
BitLenSmall(n) == IF n = 0 THEN 0 ELSE 1 + BitLenSmall(n \div 2)

RECURSIVE BigBitLen(_)
BigBitLen(a) ==
    IF a = <<>> THEN 0
    ELSE LET hi == BigBitLen(Tail(a))
         IN  IF hi > 0 THEN hi + LimbBits ELSE BitLenSmall(Head(a))

BigBit(a, i) ==
    IF i \div LimbBits + 1 > Len(a) THEN 0
    ELSE (a[i \div LimbBits + 1] \div 2^(i % LimbBits)) % 2

RECURSIVE BigShl(_, _)
BigShl(a, k) ==
    IF k >= LimbBits THEN BigShl(<<0>> \o a, k - LimbBits)
    ELSE BigMulSmall(a, 2^k, 0)

RECURSIVE BigShr(_, _)
BigShr(a, k) ==
    IF a = <<>> THEN <<>>
    ELSE IF k >= LimbBits THEN BigShr(Tail(a), k - LimbBits)
    ELSE BigDivSmall(a, 2^k).q

RECURSIVE BigToInt(_)
BigToInt(a) == IF a = <<>> THEN 0 ELSE Head(a) + LimbBase * BigToInt(Tail(a))

BigOfInt(n) == BigMulSmall(<<1>>, n, 0)

\* Round the exact value a (plus a positive fraction below one unit when
\* inexact) to MantBits significant bits, ties to even.
RoundToDouble(a, inexact) ==
    LET d == BigBitLen(a) - MantBits
    IN  IF d <= 0 THEN a
        ELSE LET q      == BigShr(a, d)
                 half   == BigBit(a, d - 1) = 1
                 sticky == inexact \/ \E i \in 0..(d - 2) : BigBit(a, i) = 1
                 up     == half /\ (sticky \/ BigBit(a, d) = 1)
             IN  BigShl(IF up THEN BigAdd(q, <<1>>, 0) ELSE q, d)

\* The float nearest to the decimal literal num/den (0.2126 is 2126/10000).
FloatLiteral(num, den) ==
    LET dv == BigDivSmall(BigShl(BigOfInt(num), FracBits), den)
    IN  RoundToDouble(dv.q, dv.r # 0)

\* float * n, float / n (n an integer converted exactly), float + float.
FloatMulInt(f, n) == RoundToDouble(BigMulSmall(f, n, 0), FALSE)
FloatDivInt(f, n) ==
    LET dv == BigDivSmall(f, n) IN RoundToDouble(dv.q, dv.r # 0)
FloatAdd(f, g) == RoundToDouble(BigAdd(f, g, 0), FALSE)
\* int(f): truncation toward zero of a non-negative float.
FloatToInt(f) == BigToInt(BigShr(f, FracBits))

(***************************************************************************)
(* get_ascii_char_and_color                                                *)
(***************************************************************************)
ascii_chars == <<" ", ".", ":", "-", "=", "+", "*", "%", "@", "#">>

WeightR == FloatLiteral(2126, 10000)
WeightG == FloatLiteral(7152, 10000)
WeightB == FloatLiteral(722, 10000)

\* intensity = 0.2126 * pixel[0] + 0.7152 * pixel[1] + 0.0722 * pixel[2]
Intensity(p) ==
    FloatAdd(FloatAdd(FloatMulInt(WeightR, p[1]), FloatMulInt(WeightG, p[2])),
             FloatMulInt(WeightB, p[3]))

\* A variant that runs the ramp from bright to dark.
GlyphIndexInverted(p) ==
    (Len(ascii_chars) - 1)
        - FloatToInt(FloatMulInt(FloatDivInt(Intensity(p), 255),
                                 Len(ascii_chars) - 1))

\* int((intensity / 255) * (len(ascii_chars) - 1))
GlyphIndex(p) ==
    FloatToInt(FloatMulInt(FloatDivInt(Intensity(p), 255), Len(ascii_chars) - 1))

\* a | b on non-negative integers
RECURSIVE BitOr(_, _)
BitOr(a, b) ==
    IF a = 0 THEN b
    ELSE IF b = 0 THEN a
    ELSE (IF a % 2 = 1 \/ b % 2 = 1 THEN 1 ELSE 0)
             + 2 * BitOr(a \div 2, b \div 2)

\* A variant of the threshold test that also counts a channel of exactly 128.
ColorOfInclusive(p) ==
    LET c1 == IF p[1] >= 128 THEN 1 ELSE 0
        c2 == IF p[2] >= 128 THEN BitOr(c1, 2) ELSE c1
        c3 == IF p[3] >= 128 THEN BitOr(c2, 4) ELSE c2
    IN  c3

ColorOf(p) ==
    LET c0 == 0
        c1 == IF p[1] > 128 THEN BitOr(c0, 1) ELSE c0
        c2 == IF p[2] > 128 THEN BitOr(c1, 2) ELSE c1
        c3 == IF p[3] > 128 THEN BitOr(c2, 4) ELSE c2
    IN  c3

\* Indexing ascii_chars out of range raises IndexError.
get_ascii_char_and_color(p) ==
    LET i == GlyphIndex(p)
    IN  [char  |-> IF i + 1 \in DOMAIN ascii_chars THEN ascii_chars[i + 1]
                   ELSE "IndexError",
         color |-> ColorOf(p)]

(***************************************************************************)
(* The pump: the loop of run_xorg_app_in_xephyr                            *)
(***************************************************************************)
frame_byte_size == canvas_width * canvas_height * 3
Unread == Len(written) - rpos
Rows == 0..(canvas_height - 1)
Cols == 0..(canvas_width - 1)

\* A fresh caca canvas: blanks in the default attribute (CACA_DEFAULT).
BlankCell == [char |-> " ", color |-> 16]
BlankCanvas == [yy \in Rows |-> [xx \in Cols |-> BlankCell]]

\* A variant that lays the buffer out column by column:
\* reshape(canvas_width, canvas_height, 3), read as [x][y].
ReshapeColumnMajor(raw) ==
    [yy \in Rows |-> [xx \in Cols |->
        <<raw[(xx * canvas_height + yy) * 3 + 1],
          raw[(xx * canvas_height + yy) * 3 + 2],
          raw[(xx * canvas_height + yy) * 3 + 3]>>]]

\* np.frombuffer(raw, dtype=np.uint8).reshape(canvas_height, canvas_width, 3)
Reshape(raw) ==
    [yy \in Rows |-> [xx \in Cols |->
        <<raw[(yy * canvas_width + xx) * 3 + 1],
          raw[(yy * canvas_width + xx) * 3 + 2],
          raw[(yy * canvas_width + xx) * 3 + 3]>>]]

NoPixel == <<0, 0, 0>>

\* lines 57, 62, 76: the three subprocesses, by the names they are bound to.
Subprocesses == {"xephyr", "app_process", "ffmpeg"}

InitLocals ==
    /\ raw_frame = <<>>
    /\ frame = <<>>
    /\ x = 0 /\ y = 0
    /\ char = " " /\ color = 0
    /\ delivered = <<>>
    /\ reads = 0
    /\ terminated = {}
    /\ raised = FALSE
    /\ exc = "none"
    /\ error = "none"
    /\ state = "Idle"

\* The state in which the loop at line 80 is entered: Xephyr, the application
\* and ffmpeg run, the canvas is fresh, nothing has been read.
Init ==
    /\ \E width \in Widths, height \in Heights, scale_factor \in Scales :
          /\ canvas_width = width \div (8 * scale_factor)
          /\ canvas_height = height \div (16 * scale_factor)
    /\ written = <<>> /\ rpos = 0 /\ src = "open"
    /\ pc = "enter"
    /\ started = Subprocesses
    /\ canvas = BlankCanvas
    /\ pixel = NoPixel
    /\ InitLocals

\* ffmpeg, the byte source -------------------------------------------------
\* ffmpeg writes the next byte of its rawvideo output: the pixels are rgb24
\* pixels of PixelVals, and the pipe takes them a byte at a time.
FfmpegWrite ==
    /\ src = "open" /\ "ffmpeg" \in started \ terminated
    /\ Len(written) < MaxStreamLen
    /\ \E p \in PixelVals :
          LET k == Len(written) % 3
          IN  /\ SubSeq(written, Len(written) - k + 1, Len(written)) = SubSeq(p, 1, k)
              /\ written' = Append(written, p[k + 1])
    /\ UNCHANGED <<canvas_width, canvas_height, rpos, src, pc, state, error,
                   raw_frame, frame, x, y, pixel, char, color, canvas,
                   delivered, reads, terminated, raised, started, exc>>

FfmpegClose ==
    /\ src = "open" /\ "ffmpeg" \in started
    /\ src' = "eof"
    /\ UNCHANGED <<canvas_width, canvas_height, written, rpos, pc, state, error,
                   raw_frame, frame, x, y, pixel, char, color, canvas,
                   delivered, reads, terminated, raised, started, exc>>

\* The pipe breaks: the next read that has to go to the pipe raises OSError.
FfmpegFault ==
    /\ src = "open" /\ "ffmpeg" \in started \ terminated
    /\ src' = "error"
    /\ UNCHANGED <<canvas_width, canvas_height, written, rpos, pc, state, error,
                   raw_frame, frame, x, y, pixel, char, color, canvas,
                   delivered, reads, terminated, raised, started, exc>>

\* The loop ----------------------------------------------------------------
\* line 82: ffmpeg.stdout.read(canvas_width * canvas_height * 3) is called.
ReadCall ==
    /\ pc \in {"enter", "loop"}
    /\ pc' = "reading"
    /\ state' = IF state = "Idle" THEN "Running" ELSE state
    /\ UNCHANGED <<canvas_width, canvas_height, written, rpos, src, error,
                   raw_frame, frame, x, y, pixel, char, color, canvas,
                   delivered, reads, terminated, raised, started, exc>>

\* A variant of the read that returns as soon as any byte is there, as an
\* unbuffered pipe (read1) would.
ReadReturnAvailable ==
    /\ pc = "reading"
    /\ Unread > 0 \/ src = "eof" \/ frame_byte_size = 0
    /\ LET n == IF Unread >= frame_byte_size THEN frame_byte_size ELSE Unread
       IN  /\ raw_frame' = SubSeq(written, rpos + 1, rpos + n)
           /\ rpos' = rpos + n
           /\ reads' = IF n > 0 THEN reads + 1 ELSE reads
    /\ pc' = "check"
    /\ UNCHANGED <<canvas_width, canvas_height, written, src, state, error,
                   frame, x, y, pixel, char, color, canvas, delivered,
                   terminated, raised, started, exc>>

\* The buffered read returns once it has all the bytes asked for, or at end of
\* stream with the bytes that are left.
ReadReturn ==
    /\ pc = "reading"
    /\ Unread >= frame_byte_size \/ src = "eof"
    /\ LET n == IF Unread >= frame_byte_size THEN frame_byte_size ELSE Unread
       IN  /\ raw_frame' = SubSeq(written, rpos + 1, rpos + n)
           /\ rpos' = rpos + n
           /\ reads' = IF n > 0 THEN reads + 1 ELSE reads
    /\ pc' = "check"
    /\ UNCHANGED <<canvas_width, canvas_height, written, src, state, error,
                   frame, x, y, pixel, char, color, canvas, delivered,
                   terminated, raised, started, exc>>

\* The read raises; nothing catches OSError, so it leaves through finally.
ReadFails ==
    /\ pc = "reading"
    /\ src = "error" /\ Unread < frame_byte_size
    /\ state' = "Failed" /\ error' = "SourceIOError"
    /\ pc' = "finally"
    /\ UNCHANGED <<canvas_width, canvas_height, written, rpos, src, raw_frame,
                   frame, x, y, pixel, char, color, canvas, delivered, reads,
                   terminated, raised, started, exc>>

\* A variant of the end test that also leaves on a short chunk:
\* if len(raw_frame) < size: break
BreakOnShortRead ==
    /\ pc = "check"
    /\ Len(raw_frame) < frame_byte_size \/ raw_frame = <<>>
    /\ state' = "Drained"
    /\ pc' = "finally"
    /\ UNCHANGED <<canvas_width, canvas_height, written, rpos, src, error,
                   raw_frame, frame, x, y, pixel, char, color, canvas,
                   delivered, reads, terminated, raised, started, exc>>

\* A variant of the end test that treats the end of the stream as an error:
\* if not raw_frame: raise EOFError
BreakRaises ==
    /\ pc = "check"
    /\ raw_frame = <<>>
    /\ state' = "Failed" /\ error' = "EOFError"
    /\ pc' = "finally"
    /\ UNCHANGED <<canvas_width, canvas_height, written, rpos, src,
                   raw_frame, frame, x, y, pixel, char, color, canvas,
                   delivered, reads, terminated, raised, started, exc>>

\* lines 83-84: if not raw_frame: break
Break ==
    /\ pc = "check"
    /\ raw_frame = <<>>
    /\ state' = "Drained"
    /\ pc' = "finally"
    /\ UNCHANGED <<canvas_width, canvas_height, written, rpos, src, error,
                   raw_frame, frame, x, y, pixel, char, color, canvas,
                   delivered, reads, terminated, raised, started, exc>>

\* line 87: reshape raises ValueError unless the chunk has exactly
\* canvas_height * canvas_width * 3 bytes.
Decode ==
    /\ pc = "check"
    /\ raw_frame # <<>>
    /\ IF Len(raw_frame) = frame_byte_size
       THEN /\ frame' = Reshape(raw_frame)
            /\ x' = 0 /\ y' = 0
            /\ pc' = "convert"
            /\ UNCHANGED <<state, error>>
       ELSE /\ state' = "Failed" /\ error' = "MalformedFrame"
            /\ pc' = "finally"
            /\ UNCHANGED <<frame, x, y>>
    /\ UNCHANGED <<canvas_width, canvas_height, written, rpos, src, raw_frame,
                   pixel, char, color, canvas, delivered, reads, terminated,
                   raised, started, exc>>

\* get_ascii_char_and_color on the pixels the stream carries, the function
\* the inner loop calls at line 90.
CellOf ==
    [p \in PixelVals |-> get_ascii_char_and_color(p)]

\* lines 88-92: one pass of the inner loop body, for the pixel at (x, y).
PutPixel ==
    /\ pc = "convert"
    /\ LET cell == CellOf[frame[y][x]]
       IN  /\ pixel' = frame[y][x]
           /\ char' = cell.char /\ color' = cell.color
           /\ IF cell.char = "IndexError"
              THEN /\ state' = "Failed" /\ error' = "IndexError"
                   /\ pc' = "finally"
                   /\ UNCHANGED <<canvas, x, y>>
              ELSE /\ canvas' = [canvas EXCEPT ![y][x] = cell]
                   /\ IF x + 1 < canvas_width
                      THEN x' = x + 1 /\ y' = y /\ pc' = "convert"
                      ELSE IF y + 1 < canvas_height
                      THEN x' = 0 /\ y' = y + 1 /\ pc' = "convert"
                      ELSE x' = x /\ y' = y /\ pc' = "refresh"
                   /\ UNCHANGED <<state, error>>
    /\ UNCHANGED <<canvas_width, canvas_height, written, rpos, src, raw_frame,
                   frame, delivered, reads, terminated, raised, started, exc>>

\* A variant of the refresh that skips a canvas equal to the one on show.
RefreshSkipsUnchanged ==
    /\ pc = "refresh"
    /\ delivered' = IF delivered # <<>> /\ delivered[Len(delivered)] = canvas
                    THEN delivered
                    ELSE Append(delivered, canvas)
    /\ pc' = "loop"
    /\ UNCHANGED <<canvas_width, canvas_height, written, rpos, src, state,
                   error, raw_frame, frame, x, y, pixel, char, color, canvas,
                   reads, terminated, raised, started, exc>>

\* A variant in which display.refresh() sits after the loop, not in it.
RefreshOutsideLoop ==
    /\ pc = "refresh"
    /\ pc' = "loop"
    /\ UNCHANGED <<canvas_width, canvas_height, written, rpos, src, state,
                   error, raw_frame, frame, x, y, pixel, char, color, canvas,
                   delivered, reads, terminated, raised, started, exc>>

\* line 95: display.refresh() shows the canvas and returns.
Refresh ==
    /\ pc = "refresh"
    /\ delivered' = Append(delivered, canvas)
    /\ pc' = "loop"
    /\ UNCHANGED <<canvas_width, canvas_height, written, rpos, src, state,
                   error, raw_frame, frame, x, y, pixel, char, color, canvas,
                   reads, terminated, raised, started, exc>>

\* A variant that swallows the display's error and goes on with the next frame:
\* try: display.refresh() / except Exception: continue
RefreshFailsSwallowed ==
    /\ pc = "refresh"
    /\ error' = "SinkError"
    /\ pc' = "loop"
    /\ UNCHANGED <<canvas_width, canvas_height, written, rpos, src, state,
                   raw_frame, frame, x, y, pixel, char, color, canvas,
                   delivered, reads, terminated, raised, started, exc>>

\* line 95: display.refresh() raises; nothing catches it.
RefreshFails ==
    /\ pc = "refresh"
    /\ state' = "Failed" /\ error' = "SinkError"
    /\ pc' = "finally"
    /\ UNCHANGED <<canvas_width, canvas_height, written, rpos, src, raw_frame,
                   frame, x, y, pixel, char, color, canvas, delivered, reads,
                   terminated, raised, started, exc>>

\* A variant without the except clause: the interrupt leaves as an error.
InterruptUncaught ==
    /\ pc \in {"loop", "reading", "check", "convert", "refresh"}
    /\ state' = "Failed" /\ error' = "KeyboardInterrupt"
    /\ pc' = "finally"
    /\ UNCHANGED <<canvas_width, canvas_height, written, rpos, src,
                   raw_frame, frame, x, y, pixel, char, color, canvas,
                   delivered, reads, terminated, raised, started, exc>>

\* A variant whose handler sits inside the loop and goes on reading:
\* except KeyboardInterrupt: print(...); continue
InterruptResumes ==
    /\ pc \in {"loop", "reading", "check", "convert", "refresh"}
    /\ state' = "Cancelled"
    /\ pc' = "loop"
    /\ UNCHANGED <<canvas_width, canvas_height, written, rpos, src, error,
                   raw_frame, frame, x, y, pixel, char, color, canvas,
                   delivered, reads, terminated, raised, started, exc>>

\* A variant whose handler refreshes the display once more before leaving.
InterruptRefreshes ==
    /\ pc \in {"loop", "reading", "check", "convert", "refresh"}
    /\ state' = "Cancelled"
    /\ delivered' = Append(delivered, canvas)
    /\ pc' = "finally"
    /\ UNCHANGED <<canvas_width, canvas_height, written, rpos, src, error,
                   raw_frame, frame, x, y, pixel, char, color, canvas,
                   reads, terminated, raised, started, exc>>

\* lines 97-98: Ctrl+C anywhere in the loop lands in except KeyboardInterrupt.
Interrupt ==
    /\ pc \in {"loop", "reading", "check", "convert", "refresh"}
    /\ state' = "Cancelled"
    /\ pc' = "finally"
    /\ UNCHANGED <<canvas_width, canvas_height, written, rpos, src, error,
                   raw_frame, frame, x, y, pixel, char, color, canvas,
                   delivered, reads, terminated, raised, started, exc>>

\* The exception that leaves the try block, "none" when the block ended
\* normally or the interrupt was caught at line 97.
Outcome == IF state = "Failed" THEN error ELSE exc

\* lines 99-103: the finally block, then the function returns or re-raises.
\* xephyr is bound before the try; app_process and ffmpeg are bound only once
\* their Popen has returned, and terminate() on an unbound name raises
\* UnboundLocalError in place of whatever was in flight, skipping the calls
\* after it.
Finally ==
    /\ pc = "finally"
    /\ terminated' = IF "app_process" \notin started THEN {"xephyr"}
                     ELSE IF "ffmpeg" \notin started
                     THEN {"xephyr", "app_process"}
                     ELSE {"xephyr", "app_process", "ffmpeg"}
    /\ exc' = IF {"app_process", "ffmpeg"} \subseteq started
              THEN Outcome
              ELSE "UnboundLocalError"
    /\ raised' = (exc' # "none")
    /\ pc' = "done"
    /\ UNCHANGED <<canvas_width, canvas_height, written, rpos, src, state,
                   error, raw_frame, frame, x, y, pixel, char, color, canvas,
                   delivered, reads, started>>

Next ==
    \/ FfmpegWrite \/ FfmpegClose \/ FfmpegFault
    \/ ReadCall \/ ReadReturn \/ ReadFails
    \/ Break \/ Decode \/ PutPixel
    \/ Refresh \/ RefreshFails
    \/ Interrupt \/ Finally

Spec == Init /\ [][Next]_vars

\* The steps of the function itself, as against those of ffmpeg and of the
\* user at the keyboard.  The interpreter keeps executing the function: a
\* step of it that stays possible is taken.
PumpStep ==
    \/ ReadCall \/ ReadReturn \/ ReadFails
    \/ Break \/ Decode \/ PutPixel
    \/ Refresh \/ RefreshFails
    \/ Finally

FairSpec == Spec /\ WF_vars(PumpStep)

(***************************************************************************)
(* The whole of run_xorg_app_in_xephyr, from the return of Xephyr's Popen  *)
(* at line 57: the wait, the start of the application, the canvas and the  *)
(* display, the start of ffmpeg, then the loop and the finally block.      *)
(***************************************************************************)
FunctionInit ==
    /\ canvas_width = 0 /\ canvas_height = 0
    /\ written = <<>> /\ rpos = 0 /\ src = "open"
    /\ pc = "sleep"
    /\ started = {"xephyr"}
    /\ canvas = BlankCanvas
    /\ pixel = NoPixel
    /\ InitLocals

\* line 58: time.sleep(2) returns.
SleepDone ==
    /\ pc = "sleep"
    /\ pc' = "start_app"
    /\ UNCHANGED <<canvas_width, canvas_height, written, rpos, src, state,
                   error, raw_frame, frame, x, y, pixel, char, color, canvas,
                   delivered, reads, terminated, raised, started, exc>>

\* line 58: Ctrl-C during the wait.  The sleep stands before the try of line
\* 60, so neither the except clause nor the finally block runs: the
\* KeyboardInterrupt leaves the function at once.
SleepInterrupted ==
    /\ pc = "sleep"
    /\ exc' = "KeyboardInterrupt" /\ raised' = TRUE
    /\ pc' = "done"
    /\ UNCHANGED <<canvas_width, canvas_height, written, rpos, src, state,
                   error, raw_frame, frame, x, y, pixel, char, color, canvas,
                   delivered, reads, terminated, started>>

\* line 62: Popen of the application returns and binds app_process.
StartApp ==
    /\ pc = "start_app"
    /\ started' = started \cup {"app_process"}
    /\ pc' = "make_canvas"
    /\ UNCHANGED <<canvas_width, canvas_height, written, rpos, src, state,
                   error, raw_frame, frame, x, y, pixel, char, color, canvas,
                   delivered, reads, terminated, raised, exc>>

\* line 62: Popen raises (no shell, no process slot); app_process stays
\* unbound.
StartAppFails ==
    /\ pc = "start_app"
    /\ exc' = "OSError"
    /\ pc' = "finally"
    /\ UNCHANGED <<canvas_width, canvas_height, written, rpos, src, state,
                   error, raw_frame, frame, x, y, pixel, char, color, canvas,
                   delivered, reads, terminated, raised, started>>

\* lines 65-68: the canvas size from the arguments, the canvas, the display.
MakeCanvas ==
    /\ pc = "make_canvas"
    /\ \E width \in Widths, height \in Heights, scale_factor \in Scales :
          /\ canvas_width' = width \div (8 * scale_factor)
          /\ canvas_height' = height \div (16 * scale_factor)
    /\ canvas' = BlankCanvas'
    /\ pc' = "start_ffmpeg"
    /\ UNCHANGED <<written, rpos, src, state, error, raw_frame, frame, x, y,
                   pixel, char, color, delivered, reads, terminated, raised,
                   started, exc>>

\* lines 67-68: Canvas(...) or Display(canvas) raises (no usable terminal).
MakeCanvasFails ==
    /\ pc = "make_canvas"
    /\ exc' = "CanvasError"
    /\ pc' = "finally"
    /\ UNCHANGED <<canvas_width, canvas_height, written, rpos, src, state,
                   error, raw_frame, frame, x, y, pixel, char, color, canvas,
                   delivered, reads, terminated, raised, started>>

\* line 76: Popen of ffmpeg returns and binds ffmpeg; line 78 prints.
StartFfmpeg ==
    /\ pc = "start_ffmpeg"
    /\ started' = started \cup {"ffmpeg"}
    /\ pc' = "enter"
    /\ UNCHANGED <<canvas_width, canvas_height, written, rpos, src, state,
                   error, raw_frame, frame, x, y, pixel, char, color, canvas,
                   delivered, reads, terminated, raised, exc>>

\* line 76: Popen raises (ffmpeg is not installed); ffmpeg stays unbound.
StartFfmpegFails ==
    /\ pc = "start_ffmpeg"
    /\ exc' = "OSError"
    /\ pc' = "finally"
    /\ UNCHANGED <<canvas_width, canvas_height, written, rpos, src, state,
                   error, raw_frame, frame, x, y, pixel, char, color, canvas,
                   delivered, reads, terminated, raised, started>>

\* lines 97-98: Ctrl-C inside the try before the loop is entered; the except
\* clause catches it and prints.
StartupInterrupt ==
    /\ pc \in {"start_app", "make_canvas", "start_ffmpeg", "enter"}
    /\ pc' = "finally"
    /\ UNCHANGED <<canvas_width, canvas_height, written, rpos, src, state,
                   error, raw_frame, frame, x, y, pixel, char, color, canvas,
                   delivered, reads, terminated, raised, started, exc>>

FunctionNext ==
    \/ SleepDone \/ SleepInterrupted
    \/ StartApp \/ StartAppFails
    \/ MakeCanvas \/ MakeCanvasFails
    \/ StartFfmpeg \/ StartFfmpegFails
    \/ StartupInterrupt
    \/ Next

FunctionSpec == FunctionInit /\ [][FunctionNext]_vars

(***************************************************************************)
(* The classifier on its own: one call of get_ascii_char_and_color on a    *)
(* pixel of PixelSamples.                                                  *)
(***************************************************************************)
ClassifyInit ==
    /\ canvas_width = 0 /\ canvas_height = 0
    /\ written = <<>> /\ rpos = 0 /\ src = "open"
    /\ canvas = BlankCanvas
    /\ InitLocals
    /\ started = {}
    /\ pc = "classify"
    /\ pixel \in PixelSamples

Classify ==
    /\ pc = "classify"
    /\ LET cell == get_ascii_char_and_color(pixel)
       IN  char' = cell.char /\ color' = cell.color
    /\ pc' = "classified"
    /\ UNCHANGED <<canvas_width, canvas_height, written, rpos, src, state,
                   error, raw_frame, frame, x, y, pixel, canvas, delivered,
                   reads, terminated, raised, started, exc>>

ClassifyNext == Classify

ClassifySpec == ClassifyInit /\ [][ClassifyNext]_vars

(***************************************************************************)
(* Properties                                                              *)
(***************************************************************************)
Terminal == {"Drained", "Failed", "Cancelled"}

\* The i-th frame-sized chunk of the source's bytes.
Chunk(i) ==
    SubSeq(written, (i - 1) * frame_byte_size + 1, i * frame_byte_size)

\* The cell grid that converting every pixel of a full chunk gives.
Converted(raw) ==
    [yy \in Rows |-> [xx \in Cols |->
        CellOf[<<raw[(yy * canvas_width + xx) * 3 + 1],
                 raw[(yy * canvas_width + xx) * 3 + 2],
                 raw[(yy * canvas_width + xx) * 3 + 3]>>]]]

\* The chunks that have been read in full.
FullChunks ==
    IF frame_byte_size = 0 THEN {} ELSE 1..(rpos \div frame_byte_size)

\* All cells of cells come from one and the same frame of the source.
WholeFrame(cells) == \E i \in FullChunks : cells = Converted(Chunk(i))

\* The last read returned some bytes, but fewer than a frame.
PartialChunk == raw_frame # <<>> /\ Len(raw_frame) < frame_byte_size

\* The pump is in the read, short of a frame, and the source is still open.
Underrun == pc = "reading" /\ src = "open" /\ Unread < frame_byte_size

\* C1: when the source has produced exactly k full frames and then closed, and
\* the run was neither cancelled nor failed by the display, the run ends
\* Drained after exactly k deliveries, the i-th showing the i-th frame.
C1_RoundTrip ==
    (/\ pc = "done" /\ frame_byte_size > 0
     /\ src = "eof" /\ Len(written) % frame_byte_size = 0
     /\ state # "Cancelled" /\ error # "SinkError")
    => /\ state = "Drained" /\ ~raised
       /\ Len(delivered) = Len(written) \div frame_byte_size
       /\ \A i \in 1..Len(delivered) : delivered[i] = Converted(Chunk(i))

C1_Witness ==
    /\ pc = "done" /\ state = "Drained" /\ src = "eof"
    /\ Len(delivered) = 2 /\ delivered[1] # delivered[2]
    /\ Len(written) = 2 * frame_byte_size

\* C2: the chunks read minus the frames delivered is always 0 or 1, and a
\* read returns bytes only when every chunk read before has been delivered.
C2_OneInFlight ==
    [][/\ reads' - Len(delivered') \in {0, 1}
       /\ (rpos' > rpos => reads = Len(delivered))]_vars

C2_Witness ==
    pc = "convert" /\ reads = 2 /\ Len(delivered) = 1

\* C3: once a read has returned a partial chunk, the run is never Drained,
\* the canvas and the deliveries stay as they were, and unless cancelled the
\* run ends Failed with the malformed-frame error, raised to the caller.
C3_Desync ==
    [][PartialChunk' =>
          /\ state' # "Drained"
          /\ canvas' = canvas /\ delivered' = delivered
          /\ pc' \in {"check", "finally", "done"}
          /\ (pc' = "done" /\ state' # "Cancelled"
                => state' = "Failed" /\ error' = "MalformedFrame" /\ raised')]_vars

C3_Witness ==
    /\ pc = "done" /\ PartialChunk /\ src = "eof"
    /\ state = "Failed" /\ error = "MalformedFrame"
    /\ Len(delivered) = 1

\* C4 as stated: a run whose last read returned fewer bytes than a frame at
\* end of stream ends Drained (unless cancelled).
C4_ShortReadAtEofDrains ==
    (/\ pc = "done" /\ src = "eof" /\ state # "Cancelled"
     /\ Len(raw_frame) < frame_byte_size)
    => state = "Drained"

\* C4 as amended: a run whose last read returned no bytes at all at end of
\* stream ends Drained (unless cancelled), without error and without raising.
C4_EmptyReadAtEofDrains ==
    (/\ pc = "done" /\ src = "eof" /\ state # "Cancelled"
     /\ frame_byte_size > 0 /\ raw_frame = <<>>)
    => state = "Drained" /\ error = "none" /\ ~raised

C4_Witness ==
    /\ pc = "done" /\ src = "eof" /\ state = "Drained"
    /\ frame_byte_size > 0 /\ raw_frame = <<>> /\ reads >= 1

\* C5: while the pump is in the read with less than a frame unread and the
\* source open, no step fails it, consumes bytes, touches the canvas or
\* delivers; the only way out is a cancellation.  A read that returns while
\* the source is open returns exactly the next full frame.
C5_UnderrunBlocks ==
    [][/\ Underrun =>
             /\ state' \in {"Running", "Cancelled"}
             /\ pc' \in {"reading", "finally"}
             /\ (pc' = "finally" => state' = "Cancelled")
             /\ rpos' = rpos /\ reads' = reads /\ raw_frame' = raw_frame
             /\ canvas' = canvas /\ delivered' = delivered
       /\ (pc = "reading" /\ pc' = "check" /\ src = "open")
             => raw_frame' = SubSeq(written, rpos + 1, rpos + frame_byte_size)]_vars

C5_Witness ==
    /\ Underrun /\ Unread = frame_byte_size - 1 /\ reads >= 1

\* C6: an error is set exactly when the run is Failed; a Failed run is in
\* its finally block or done, never reads, writes the canvas or delivers
\* again, keeps its error, and ends by raising.
C6_ErrorsFatal ==
    [][/\ (error' # "none" <=> state' = "Failed")
       /\ (state' = "Failed" => pc' \in {"finally", "done"})
       /\ (state = "Failed" =>
             /\ state' = "Failed" /\ error' = error
             /\ rpos' = rpos /\ reads' = reads
             /\ canvas' = canvas /\ delivered' = delivered)
       /\ (pc' = "done" => (raised' <=> state' = "Failed"))]_vars

C6_Witness ==
    /\ pc = "done" /\ state = "Failed" /\ error = "SinkError" /\ raised
    /\ frame_byte_size > 0 /\ Unread >= frame_byte_size

C8_NoPartialFrameShown ==
    [][/\ (state' = "Cancelled" => delivered' = delivered)
       /\ \A i \in 1..Len(delivered') : (WholeFrame(delivered[i]))']_vars

\* Cancelled in the middle of a frame: the canvas holds some of its cells.
C8_Witness ==
    /\ pc = "done" /\ state = "Cancelled"
    /\ canvas # BlankCanvas /\ ~WholeFrame(canvas)
    /\ pixel = frame[0][0] /\ canvas_width * canvas_height > 1

\* The glyph index in exact arithmetic: floor((L / 255) * 9) with
\* L = 0.2126 r + 0.7152 g + 0.0722 b.
ExactIndex(p) ==
    ((2126 * p[1] + 7152 * p[2] + 722 * p[3]) * 9) \div (10000 * 255)

\* C9: the color class is in 0..7, bit0 is set iff r > 128, bit1 iff g > 128,
\* bit2 iff b > 128; (128,128,128) gives 0; r > 128, g <= 128, b <= 128 gives 1.
C9_ColorClass ==
    pc = "classified" =>
       /\ color \in 0..7
       /\ (color % 2 = 1 <=> pixel[1] > 128)
       /\ ((color \div 2) % 2 = 1 <=> pixel[2] > 128)
       /\ ((color \div 4) % 2 = 1 <=> pixel[3] > 128)
       /\ (pixel = <<128, 128, 128>> => color = 0)
       /\ (pixel[1] > 128 /\ pixel[2] <= 128 /\ pixel[3] <= 128 => color = 1)

C9_Witness ==
    pc = "classified" /\ pixel = <<129, 128, 128>> /\ color = 1

\* C10 as stated: the glyph is the ramp character at floor((L / 255) * 9),
\* the index is in 0..9, (10,10,10) gets index 0 and (255,255,255) index 9.
C10_GlyphIndex ==
    pc = "classified" =>
       /\ ExactIndex(pixel) \in 0..9
       /\ char = ascii_chars[ExactIndex(pixel) + 1]
       /\ (pixel = <<10, 10, 10>> => char = ascii_chars[1])
       /\ (pixel = <<255, 255, 255>> => char = ascii_chars[10])

\* The position of a glyph in the ramp.
RampIndex(c) == CHOOSE i \in 0..(Len(ascii_chars) - 1) : ascii_chars[i + 1] = c

\* 10000 times the luminance 0.2126 r + 0.7152 g + 0.0722 b, exactly.
ExactLuminance(p) == 2126 * p[1] + 7152 * p[2] + 722 * p[3]

\* -1, 0 or 1 as the float f is below, equal to or above the float g.
RECURSIVE FloatCompare(_, _)
FloatCompare(f, g) ==
    IF f = <<>> /\ g = <<>> THEN 0
    ELSE LET lf == IF f = <<>> THEN 0 ELSE Head(f)
             lg == IF g = <<>> THEN 0 ELSE Head(g)
             hi == FloatCompare(IF f = <<>> THEN f ELSE Tail(f),
                                IF g = <<>> THEN g ELSE Tail(g))
         IN  IF hi # 0 THEN hi
             ELSE IF lf < lg THEN -1 ELSE IF lf > lg THEN 1 ELSE 0

\* What the classifier computes for the pixels of CompareSamples.
Compared ==
    {[pixel     |-> q,
      index     |-> RampIndex(get_ascii_char_and_color(q).char),
      intensity |-> Intensity(q)] : q \in CompareSamples}

\* C11: a pixel of lower luminance never gets a higher glyph index, whether
\* the luminance is taken exactly or as the float the code computes.
C11_Monotone ==
    pc = "classified" =>
       LET idx == RampIndex(char)
           lum == ExactLuminance(pixel)
           int == Intensity(pixel)
       IN  \A q \in Compared :
              LET cmp == FloatCompare(q.intensity, int)
              IN  /\ (ExactLuminance(q.pixel) < lum => q.index <= idx)
                  /\ (lum < ExactLuminance(q.pixel) => idx <= q.index)
                  /\ (cmp < 0 => q.index <= idx)
                  /\ (cmp > 0 => idx <= q.index)

\* A pixel with darker pixels in its own bucket and in lower ones.
C11_Witness ==
    /\ pc = "classified" /\ RampIndex(char) = 3
    /\ \E q \in Compared :
          ExactLuminance(q.pixel) < ExactLuminance(pixel) /\ q.index = 3
    /\ \E q \in Compared :
          ExactLuminance(q.pixel) < ExactLuminance(pixel) /\ q.index < 3

\* The row-major number of the pixel the loops stand at.
CellNumber == y * canvas_width + x

\* C12: a delivery shows the canvas, whose shape is canvas_height rows of
\* canvas_width cells and whose cell (x, y) is the classification of bytes
\* (y*width+x)*3 .. (y*width+x)*3+2 of the chunk read in this iteration; the
\* canvas changes only in the pixel loop, each pass writes the one cell it
\* stands at, and the passes of a frame visit cells 0, 1, ... in order, once.
C12_GridPreserved ==
    [][/\ (delivered' # delivered =>
             /\ delivered' = Append(delivered, canvas)
             /\ Len(raw_frame) = frame_byte_size
             /\ DOMAIN canvas = Rows
             /\ \A yy \in Rows :
                   /\ DOMAIN canvas[yy] = Cols
                   /\ \A xx \in Cols :
                         canvas[yy][xx] =
                            CellOf[<<raw_frame[(yy * canvas_width + xx) * 3 + 1],
                                     raw_frame[(yy * canvas_width + xx) * 3 + 2],
                                     raw_frame[(yy * canvas_width + xx) * 3 + 3]>>])
       /\ (canvas' # canvas => pc = "convert")
       /\ (pc = "check" /\ pc' = "convert" => CellNumber' = 0)
       /\ (pc = "convert" /\ pc' \in {"convert", "refresh"}
             /\ <<x, y, pc>>' # <<x, y, pc>> =>
             /\ \A yy \in Rows, xx \in Cols :
                   (yy # y \/ xx # x) => canvas'[yy][xx] = canvas[yy][xx]
             /\ (pc' = "convert" => CellNumber' = CellNumber + 1)
             /\ (pc' = "refresh"
                   => CellNumber = canvas_width * canvas_height - 1))]_vars

\* A 2 x 2 frame whose two off-diagonal pixels differ has been delivered.
C12_Witness ==
    /\ canvas_width = 2 /\ canvas_height = 2
    /\ pc = "loop" /\ Len(delivered) = 1
    /\ delivered[1][0][1] # delivered[1][1][0]

\* The errors that fail a run: reshape's, the read's, the display's and an
\* index outside the ramp.
PumpErrors == {"MalformedFrame", "SourceIOError", "SinkError", "IndexError"}

\* C13: while the pump is Running an interrupt can arrive at every point;
\* Running turns Cancelled only on the way into the finally block and
\* without an error; a Cancelled run stays Cancelled; a Failed run never has
\* the interrupt as its error; the function ends by raising exactly when the
\* run is Failed, so Drained and Cancelled return normally.
C13_CancelledReturns ==
    [][/\ (state = "Running" => ENABLED Interrupt)
       /\ (state = "Running" /\ state' = "Cancelled"
             => pc' = "finally" /\ error' = "none")
       /\ (state = "Cancelled" => state' = "Cancelled" /\ error' = "none")
       /\ (state' = "Failed" => error' \in PumpErrors)
       /\ (pc' = "done" => (raised' <=> state' = "Failed"))]_vars

\* Cancelled while blocked in a read that was short of a frame.
C13_Witness ==
    /\ pc = "done" /\ state = "Cancelled" /\ ~raised
    /\ src = "open" /\ frame_byte_size > 0 /\ Unread < frame_byte_size
    /\ reads = 1 /\ Len(delivered) = 1

\* C14, first half: once the source is at end of stream the run reaches a
\* terminal state.
C14_Terminates == (src = "eof") ~> (state \in Terminal)

\* C14, second half: a Running pump stops only by an error, by a
\* cancellation, or Drained with the source at end of stream.
C14_StopsOnlyWhenExhausted ==
    [][state = "Running" /\ state' \in Terminal
         => state' \in {"Failed", "Cancelled"} \/ src = "eof"]_vars

\* C14 as stated: the run ends once the source is exhausted, and it does not
\* stop on its own before.
C14_RunsUntilExhausted == C14_Terminates /\ C14_StopsOnlyWhenExhausted

\* C15 as stated: the run is Drained only with the source at end of stream.
C15_DrainedOnlyAtEof == state = "Drained" => src = "eof"

\* C16 as stated: whenever the function exits, terminate() has been called on
\* every subprocess that was started, and the finally block hands on the
\* outcome of the try block unchanged.
C16_CleanupComplete ==
    [][pc' = "done"
         => /\ terminated' = started'
            /\ (pc = "finally" => exc' = Outcome)]_vars

====
